---------------------------- MODULE Spec2Model ----------------------------
(***************************************************************************)
(* Model of spikeFileIO.py: the event container, the fixed-width binary    *)
(* spike codecs (1D, 2D, 3D, spike-count summary) and the conversion       *)
(* between events and dense time-binned tensors.                           *)
(*                                                                         *)
(* Conventions.                                                            *)
(*  - A numpy 1-d array is a sequence; array positions in comments are     *)
(*    0-based as in the source, sequence positions are 1-based.            *)
(*  - A timestamp (a double, in ms, in the source) is an integer number of *)
(*    half-microseconds ("ticks"): t_ms = ticks / 2000.  Every timestamp   *)
(*    the codecs can produce, and every value half-way between two         *)
(*    microseconds, is a whole number of ticks.  The double arithmetic of  *)
(*    the source is exact on these values apart from errors far below half *)
(*    a tick, which np.round removes.                                      *)
(*  - x, y and p are integer arrays (the class docstring), on which        *)
(*    np.round is the identity.                                            *)
(*  - A library call that raises leaves ok = FALSE in `last`.              *)
(***************************************************************************)
EXTENDS Integers, Sequences, FiniteSets, TLC

VARIABLES
    file,       \* the bytes of the binary spike file
    wrote,      \* which operation produced the bytes now in the file
    callerP,    \* the caller's own p buffer, as passed to event(...)
    alias,      \* TRUE when TD.p is the caller's buffer itself (same ndarray)
    TD,         \* the client's event container
    RD,         \* the event container returned by the last decoder call
    cols,       \* the four columns returned by read1DnumSpikes
    spikeMat,   \* the dense tensor the client passed to spikeArrayToEvent
    frame,      \* the dense tensor returned by toSpikeArray / toSpikeTensor
    last        \* the last library call: its name, outcome and arguments

vars == <<file, wrote, callerP, alias, TD, RD, cols, spikeMat, frame, last>>

-----------------------------------------------------------------------------
(* Bounds of the model *)

\* the largest number of events of an event set the client constructs
MaxEvents == 2

\* the largest length of a file written by another program
MaxFileLen == 11

-----------------------------------------------------------------------------
(* Integer bit operations (numpy int64 operators on non-negative values) *)

RECURSIVE BitAnd(_, _)
BitAnd(a, b) ==
    IF a = 0 \/ b = 0 THEN 0
    ELSE (a % 2) * (b % 2) + 2 * BitAnd(a \div 2, b \div 2)

RECURSIVE BitOr(_, _)
BitOr(a, b) ==
    IF a = 0 THEN b
    ELSE IF b = 0 THEN a
    ELSE (IF a % 2 = 1 \/ b % 2 = 1 THEN 1 ELSE 0) + 2 * BitOr(a \div 2, b \div 2)

Shl(a, n) == a * (2 ^ n)

Shr(a, n) == a \div (2 ^ n)

\* np.uint8(array): the cast keeps the low 8 bits
uint8(a) == a % 256

\* np.round of the rational n / d (n >= 0, d > 0): round half to even
RoundHalfEven(n, d) ==
    LET q == n \div d
        r == n % d
    IN  IF 2 * r < d THEN q
        ELSE IF 2 * r > d THEN q + 1
        ELSE IF q % 2 = 0 THEN q ELSE q + 1

\* tEvent / 1000: microseconds to the ms timestamp (in ticks)
UsToMs(us) == 2 * us

\* np.round(TD.t * 1000).astype(int): the ms timestamp (in ticks) to microseconds
MsToUs(t) == RoundHalfEven(t, 2)

Min(S) == CHOOSE m \in S : \A n \in S : m <= n

Max(S) == CHOOSE m \in S : \A n \in S : m >= n

Range(s) == {s[i] : i \in 1..Len(s)}

-----------------------------------------------------------------------------
(* numpy arrays: strided slices and broadcasting of element-wise operators *)

\* inputAsInt[k::n]: the elements at the 0-based positions k, k+n, k+2n, ...
Stride(a, k, n) ==
    LET cnt == IF Len(a) > k THEN (Len(a) - k + n - 1) \div n ELSE 0
    IN  [i \in 1..cnt |-> a[k + (i - 1) * n + 1]]

\* two 1-d arrays combine element-wise when their lengths agree or one is 1
Broadcastable(a, b) == Len(a) = Len(b) \/ Len(a) = 1 \/ Len(b) = 1

\* the length of the broadcast result (a length 1 stretches, also to 0)
BLen(a, b) == IF Len(a) = 1 THEN Len(b) ELSE Len(a)

At(a, i) == IF Len(a) = 1 THEN a[1] ELSE a[i]

ArrOr(a, b) == [i \in 1..BLen(a, b) |-> BitOr(At(a, i), At(b, i))]

ArrShl(a, n) == [i \in 1..Len(a) |-> Shl(a[i], n)]

ArrShr(a, n) == [i \in 1..Len(a) |-> Shr(a[i], n)]

ArrAnd(a, m) == [i \in 1..Len(a) |-> BitAnd(a[i], m)]

-----------------------------------------------------------------------------
(* class event *)

\* yEvent is None for one-dimensional data
None == <<>>

\* a present optional argument
Some(a) == <<a>>

\* no container
NoEvent == [dim |-> 0, x |-> <<>>, y |-> None, p |-> <<>>, t |-> <<>>]

\* the constructor without the subtraction of the minimum
Normalize_none(p) == p

\* self.p -= self.p.min()
Normalize(p) == [i \in 1..Len(p) |-> p[i] - Min(Range(p))]

\* p.min() of an empty array raises ValueError
eventRaises(xEvent, yEvent, pEvent, tEvent) == Len(pEvent) = 0

\* event.__init__: the container the constructor leaves behind
event(xEvent, yEvent, pEvent, tEvent) ==
    [dim |-> IF yEvent = None THEN 1 ELSE 2,
     x   |-> xEvent,
     y   |-> yEvent,
     p   |-> Normalize(pEvent),
     t   |-> tEvent]

\* np.asarray(pEvent) is pEvent itself when it already is an ndarray, and a
\* fresh array when it is a list (type(pEvent) is np.array is never true)
asarrayAliases(kind) == kind = "ndarray"

-----------------------------------------------------------------------------
(* The binary codecs.  A decoder is modelled by the arguments it passes to   *)
(* event(...) (Columns) and by whether it raises before returning (Raises).  *)

\* the byte buffer holding the columns c[1], ..., c[k] of n records, record
\* after record: outputByteArray[j::k] = c[j+1]
Interleave(c, n) ==
    [j \in 1..(n * Len(c)) |-> c[((j - 1) % Len(c)) + 1][((j - 1) \div Len(c)) + 1]]

\* read1Dspikes: xEvent, pEvent, tEvent / 1000
read1DColumns(b) ==
    [x |-> ArrOr(ArrShl(Stride(b, 0, 5), 8), Stride(b, 1, 5)),
     y |-> None,
     p |-> ArrShr(Stride(b, 2, 5), 7),
     t |-> LET hi == ArrOr(ArrShl(Stride(b, 2, 5), 16), ArrShl(Stride(b, 3, 5), 8))
               us == ArrAnd(ArrOr(hi, Stride(b, 4, 5)), 8388607)
           IN  [i \in 1..Len(us) |-> UsToMs(us[i])]]

\* np.asarray([]) of an empty file is a float array, on which the shift
\* operators raise TypeError
EmptyInput(b) == Len(b) = 0

\* read1Dspikes raises when two slices do not broadcast or p is empty
read1DRaises(b) ==
    \/ EmptyInput(b)
    \/ ~Broadcastable(Stride(b, 0, 5), Stride(b, 1, 5))
    \/ ~Broadcastable(Stride(b, 2, 5), Stride(b, 3, 5))
    \/ ~Broadcastable(ArrOr(ArrShl(Stride(b, 2, 5), 16), ArrShl(Stride(b, 3, 5), 8)),
                      Stride(b, 4, 5))
    \/ eventRaises(<<>>, None, Stride(b, 2, 5), <<>>)

\* the dimension test of the 2D encoder, copied into the 1D encoder
encode1DRaises_copied(td) == td.dim # 2

\* encode1Dspikes: if TD.dim != 1: raise
encode1DRaises(td) == td.dim # 1

\* encode1Dspikes: the five byte columns written to the file
encode1DBytes(td) ==
    LET n  == Len(td.t)
        tE == [i \in 1..n |-> MsToUs(td.t[i])]
    IN  Interleave(
          << [i \in 1..n |-> uint8(BitAnd(Shr(td.x[i], 8), 65280))],
             [i \in 1..n |-> uint8(BitAnd(td.x[i], 255))],
             [i \in 1..n |-> uint8(BitOr(BitAnd(Shr(tE[i], 16), 127), Shl(td.p[i], 7)))],
             [i \in 1..n |-> uint8(BitAnd(Shr(tE[i], 8), 255))],
             [i \in 1..n |-> uint8(BitAnd(tE[i], 255))] >>, n)

\* read2Dspikes without the mask 0x7FFFFF on the timestamp
read2DColumns_noMask(b) ==
    [x |-> Stride(b, 0, 5),
     y |-> Some(Stride(b, 1, 5)),
     p |-> ArrShr(Stride(b, 2, 5), 7),
     t |-> LET hi == ArrOr(ArrShl(Stride(b, 2, 5), 16), ArrShl(Stride(b, 3, 5), 8))
               us == ArrOr(hi, Stride(b, 4, 5))
           IN  [i \in 1..Len(us) |-> UsToMs(us[i])]]

\* read2Dspikes: xEvent, yEvent, pEvent, tEvent / 1000
read2DColumns(b) ==
    [x |-> Stride(b, 0, 5),
     y |-> Some(Stride(b, 1, 5)),
     p |-> ArrShr(Stride(b, 2, 5), 7),
     t |-> LET hi == ArrOr(ArrShl(Stride(b, 2, 5), 16), ArrShl(Stride(b, 3, 5), 8))
               us == ArrAnd(ArrOr(hi, Stride(b, 4, 5)), 8388607)
           IN  [i \in 1..Len(us) |-> UsToMs(us[i])]]

read2DRaises(b) ==
    \/ EmptyInput(b)
    \/ ~Broadcastable(Stride(b, 2, 5), Stride(b, 3, 5))
    \/ ~Broadcastable(ArrOr(ArrShl(Stride(b, 2, 5), 16), ArrShl(Stride(b, 3, 5), 8)),
                      Stride(b, 4, 5))
    \/ eventRaises(<<>>, None, Stride(b, 2, 5), <<>>)

\* encode2Dspikes: if TD.dim != 2: raise
encode2DRaises(td) == td.dim # 2

encode2DBytes(td) ==
    LET n  == Len(td.t)
        tE == [i \in 1..n |-> MsToUs(td.t[i])]
    IN  Interleave(
          << [i \in 1..n |-> uint8(td.x[i])],
             [i \in 1..n |-> uint8(td.y[1][i])],
             [i \in 1..n |-> uint8(BitOr(BitAnd(Shr(tE[i], 16), 127), Shl(td.p[i], 7)))],
             [i \in 1..n |-> uint8(BitAnd(Shr(tE[i], 8), 255))],
             [i \in 1..n |-> uint8(BitAnd(tE[i], 255))] >>, n)

\* read3Dspikes: xEvent, yEvent, pEvent, tEvent / 1000
read3DColumns(b) ==
    [x |-> ArrOr(ArrShl(Stride(b, 0, 7), 4), ArrShr(Stride(b, 1, 7), 4)),
     y |-> Some(ArrOr(Stride(b, 2, 7), ArrShl(ArrAnd(Stride(b, 1, 7), 15), 8))),
     p |-> Stride(b, 3, 7),
     t |-> LET hi == ArrOr(ArrShl(Stride(b, 4, 7), 16), ArrShl(Stride(b, 5, 7), 8))
               us == ArrOr(hi, Stride(b, 6, 7))
           IN  [i \in 1..Len(us) |-> UsToMs(us[i])]]

read3DRaises(b) ==
    \/ EmptyInput(b)
    \/ ~Broadcastable(Stride(b, 0, 7), Stride(b, 1, 7))
    \/ ~Broadcastable(Stride(b, 2, 7), Stride(b, 1, 7))
    \/ ~Broadcastable(Stride(b, 4, 7), Stride(b, 5, 7))
    \/ ~Broadcastable(ArrOr(ArrShl(Stride(b, 4, 7), 16), ArrShl(Stride(b, 5, 7), 8)),
                      Stride(b, 6, 7))
    \/ eventRaises(<<>>, None, Stride(b, 3, 7), <<>>)

\* encode3Dspikes: if TD.dim != 2: raise
encode3DRaises(td) == td.dim # 2

\* encode3Dspikes; in byte 1 the operator & binds tighter than |, so the mask
\* 0xFF00 applies to yEvent >> 8 alone
encode3DBytes(td) ==
    LET n  == Len(td.t)
        tE == [i \in 1..n |-> MsToUs(td.t[i])]
    IN  Interleave(
          << [i \in 1..n |-> uint8(Shr(td.x[i], 4))],
             [i \in 1..n |-> uint8(BitOr(BitAnd(Shl(td.x[i], 4), 255),
                                         BitAnd(Shr(td.y[1][i], 8), 65280)))],
             [i \in 1..n |-> uint8(BitAnd(td.y[1][i], 255))],
             [i \in 1..n |-> uint8(td.p[i])],
             [i \in 1..n |-> uint8(BitAnd(Shr(tE[i], 16), 255))],
             [i \in 1..n |-> uint8(BitAnd(Shr(tE[i], 8), 255))],
             [i \in 1..n |-> uint8(BitAnd(tE[i], 255))] >>, n)

\* no columns returned
NoCols == [nID |-> <<>>, tSt |-> <<>>, tEn |-> <<>>, nSp |-> <<>>]

\* read1DnumSpikes: neuronID, tStart / 1000, tEnd / 1000, nSpikes
read1DnumColumns(b) ==
    [nID |-> ArrOr(ArrShl(Stride(b, 0, 10), 8), Stride(b, 1, 10)),
     tSt |-> LET hi == ArrOr(ArrShl(Stride(b, 2, 10), 16), ArrShl(Stride(b, 3, 10), 8))
                 us == ArrOr(hi, Stride(b, 4, 10))
             IN  [i \in 1..Len(us) |-> UsToMs(us[i])],
     tEn |-> LET hi == ArrOr(ArrShl(Stride(b, 5, 10), 16), ArrShl(Stride(b, 6, 10), 8))
                 us == ArrOr(hi, Stride(b, 7, 10))
             IN  [i \in 1..Len(us) |-> UsToMs(us[i])],
     nSp |-> ArrOr(ArrShl(Stride(b, 8, 10), 8), Stride(b, 9, 10))]

read1DnumRaises(b) ==
    \/ EmptyInput(b)
    \/ ~Broadcastable(Stride(b, 0, 10), Stride(b, 1, 10))
    \/ ~Broadcastable(Stride(b, 2, 10), Stride(b, 3, 10))
    \/ ~Broadcastable(ArrOr(ArrShl(Stride(b, 2, 10), 16), ArrShl(Stride(b, 3, 10), 8)),
                      Stride(b, 4, 10))
    \/ ~Broadcastable(Stride(b, 5, 10), Stride(b, 6, 10))
    \/ ~Broadcastable(ArrOr(ArrShl(Stride(b, 5, 10), 16), ArrShl(Stride(b, 6, 10), 8)),
                      Stride(b, 7, 10))
    \/ ~Broadcastable(Stride(b, 8, 10), Stride(b, 9, 10))

-----------------------------------------------------------------------------
(* Dense tensors.  A tensor is its shape and its cells, a function of the   *)
(* 0-based index tuples; a cell holds a rational <<numerator, denominator>>. *)

Zero == <<0, 1>>

RECURSIVE GCD(_, _)
GCD(a, b) == IF b = 0 THEN a ELSE GCD(b, a % b)

\* 1 / samplingTime in lowest terms, samplingTime being s ticks of 1/2000 ms
InvSamplingTime(s) == <<2000 \div GCD(2000, s), s \div GCD(2000, s)>>

\* the test of spikeMat != 0 in place of spikeMat > 0
NonZero(v) == v[1] # 0

\* spikeMat > 0, cell by cell
Positive(v) == v[1] > 0

Cells(shape) ==
    CASE Len(shape) = 2 -> (0..(shape[1] - 1)) \X (0..(shape[2] - 1))
      [] Len(shape) = 3 -> (0..(shape[1] - 1)) \X (0..(shape[2] - 1)) \X (0..(shape[3] - 1))
      [] Len(shape) = 4 -> (0..(shape[1] - 1)) \X (0..(shape[2] - 1))
                             \X (0..(shape[3] - 1)) \X (0..(shape[4] - 1))

\* np.zeros(shape)
Zeros(shape) == [shape |-> shape, cell |-> [c \in Cells(shape) |-> Zero]]

\* the rounded index (p, y, x, t) of event i; a one-dimensional event
\* is written at height 0
EventIndex(td, i, s) ==
    << td.p[i],
       IF td.dim = 1 THEN 0 ELSE td.y[1][i],
       td.x[i],
       RoundHalfEven(td.t[i], s) >>

\* the test under np.argwhere in toSpikeTensor: the height is tested for
\* two-dimensional events only
InBounds(td, i, shape, s) ==
    LET e == EventIndex(td, i, s)
    IN  /\ e[3] < shape[3]
        /\ td.dim = 2 => e[2] < shape[2]
        /\ e[1] < shape[1]
        /\ e[4] < shape[4]

\* validInd: the positions of the events inside the tensor, in order
validInd(td, shape, s) ==
    LET Test(i) == InBounds(td, i, shape, s)
    IN  SelectSeq([i \in 1..Len(td.x) |-> i], Test)

\* the indexed assignment raises IndexError when a one-dimensional event is
\* to be written at height 0 of a tensor that has no height
toSpikeTensorRaises(td, shape, s) ==
    td.dim = 1 /\ shape[2] = 0 /\ validInd(td, shape, s) # <<>>

\* emptyTensor[p, y, x, t] = 1/samplingTime for the first k valid events,
\* written in order
RECURSIVE ScatterWrite(_, _, _, _, _)
ScatterWrite(cell, td, valid, k, s) ==
    IF k = 0 THEN cell
    ELSE [ScatterWrite(cell, td, valid, k - 1, s)
            EXCEPT ![EventIndex(td, valid[k], s)] = InvSamplingTime(s)]

\* event.toSpikeTensor: the tensor returned (emptyTensor, written in place)
toSpikeTensorResult(td, emptyTensor, s) ==
    LET valid == validInd(td, emptyTensor.shape, s)
    IN  [shape |-> emptyTensor.shape,
         cell  |-> ScatterWrite(emptyTensor.cell, td, valid, Len(valid), s)]

\* toSpikeArray with dim None: the dimension derived from the events
autoDim(td, s) ==
    IF td.dim = 1
    THEN << Max(Range(td.p)) + 1,
            Max(Range(td.x)) + 1,
            RoundHalfEven(Max(Range(td.t)) + s, s) >>
    ELSE << Max(Range(td.p)) + 1,
            Max(Range(td.y[1])) + 1,
            Max(Range(td.x)) + 1,
            RoundHalfEven(Max(Range(td.t)) + s, s) >>

\* frame = np.zeros(...): one-dimensional events get a height of 1
frameShape(td, dim) ==
    IF td.dim = 1 THEN <<dim[1], 1, dim[2], dim[3]>> ELSE dim

\* tensor.reshape(dim): the height axis of one-dimensional data is dropped
reshape(td, tensor, dim) ==
    IF td.dim = 1
    THEN [shape |-> dim,
          cell  |-> [c \in Cells(dim) |-> tensor.cell[<<c[1], 0, c[2], c[3]>>]]]
    ELSE tensor

\* event.toSpikeArray(samplingTime, dim); dim = None stands for no dim given
toSpikeArrayResult(td, s, dim) ==
    LET d == IF dim = None THEN autoDim(td, s) ELSE dim
    IN  reshape(td, toSpikeTensorResult(td, Zeros(frameShape(td, d)), s), d)

\* the number of cells of the axes after axis j
RECURSIVE Stride4(_, _)
Stride4(shape, j) ==
    IF j >= Len(shape) THEN 1 ELSE shape[j + 1] * Stride4(shape, j + 1)

\* the index tuple of the k-th cell in row-major order (k from 0)
Unravel(k, shape) ==
    [j \in 1..Len(shape) |-> (k \div Stride4(shape, j)) % shape[j]]

\* np.argwhere(spikeMat > 0): the index tuples of the positive cells in
\* row-major order
argwhere(mat) ==
    LET n       == Cardinality(Cells(mat.shape))
        Test(c) == Positive(mat.cell[c])
    IN  SelectSeq([k \in 1..n |-> Unravel(k - 1, mat.shape)], Test)

\* spikeArrayToEvent with the timestamps left as bin indices
spikeArrayToEventColumns_noScale(mat, s) ==
    LET spikeEvent == argwhere(mat)
        n          == Len(spikeEvent)
    IN  IF Len(mat.shape) = 3
        THEN [x |-> [i \in 1..n |-> spikeEvent[i][2]],
              y |-> None,
              p |-> [i \in 1..n |-> spikeEvent[i][1]],
              t |-> [i \in 1..n |-> spikeEvent[i][3]]]
        ELSE [x |-> [i \in 1..n |-> spikeEvent[i][3]],
              y |-> Some([i \in 1..n |-> spikeEvent[i][2]]),
              p |-> [i \in 1..n |-> spikeEvent[i][1]],
              t |-> [i \in 1..n |-> spikeEvent[i][4]]]

\* spikeArrayToEvent: the arguments handed to event(...)
spikeArrayToEventColumns(mat, s) ==
    LET spikeEvent == argwhere(mat)
        n          == Len(spikeEvent)
    IN  IF Len(mat.shape) = 3
        THEN [x |-> [i \in 1..n |-> spikeEvent[i][2]],
              y |-> None,
              p |-> [i \in 1..n |-> spikeEvent[i][1]],
              t |-> [i \in 1..n |-> spikeEvent[i][3] * s]]
        ELSE [x |-> [i \in 1..n |-> spikeEvent[i][3]],
              y |-> Some([i \in 1..n |-> spikeEvent[i][2]]),
              p |-> [i \in 1..n |-> spikeEvent[i][1]],
              t |-> [i \in 1..n |-> spikeEvent[i][4] * s]]

\* spikeArrayToEvent raises for a rank other than 3 or 4, and event(...)
\* raises when no cell is positive
spikeArrayToEventRaises(mat, s) ==
    \/ Len(mat.shape) \notin {3, 4}
    \/ eventRaises(<<>>, None, argwhere(mat), <<>>)

-----------------------------------------------------------------------------
(* The state machine: a client of the library and the file system.  The     *)
(* client constructs one event container, or lets another program write the *)
(* file, and then calls the library.                                        *)

\* no dense tensor
NoTensor == [shape |-> <<>>, cell |-> <<>>]

\* the record of a library call: pArg is the pEvent handed to event(...)
Call(op, ok, pArg, samplingTime, shape) ==
    [op |-> op, ok |-> ok, pArg |-> pArg, samplingTime |-> samplingTime, shape |-> shape]

\* the file before the library writes it: three bytes of another program
OldFile == <<1, 2, 3>>

Init ==
    /\ file = OldFile
    /\ wrote = "none"
    /\ callerP = <<>>
    /\ alias = FALSE
    /\ TD = NoEvent
    /\ RD = NoEvent
    /\ cols = NoCols
    /\ spikeMat = NoTensor
    /\ frame = NoTensor
    /\ last = Call("init", TRUE, <<>>, 0, <<>>)

\* TD = event(xEvent, yEvent, pEvent, tEvent) with the caller's p buffer a
\* list or an ndarray; the in-place subtraction reaches the caller's buffer
\* when asarray returned the buffer itself
NewEvent(kind, xEvent, yEvent, pEvent, tEvent) ==
    /\ alias' = asarrayAliases(kind)
    /\ IF eventRaises(xEvent, yEvent, pEvent, tEvent)
       THEN /\ TD' = NoEvent
            /\ callerP' = pEvent
            /\ last' = Call("event", FALSE, pEvent, 0, <<>>)
       ELSE /\ TD' = event(xEvent, yEvent, pEvent, tEvent)
            /\ callerP' = IF asarrayAliases(kind) THEN Normalize(pEvent) ELSE pEvent
            /\ last' = Call("event", TRUE, pEvent, 0, <<>>)
    /\ UNCHANGED <<file, wrote, RD, cols, spikeMat, frame>>

\* another program replaces the file's bytes
ExternalFile(bytes) ==
    /\ file' = bytes
    /\ wrote' = "external"
    /\ last' = Call("externalFile", TRUE, <<>>, 0, <<>>)
    /\ UNCHANGED <<callerP, alias, TD, RD, cols, spikeMat, frame>>

\* the client has called nothing yet
AtStart == last.op = "init" /\ TD = NoEvent

\* the client encodes the container it has just constructed
CanEncode == last.op = "event" /\ last.ok

encode1Dspikes ==
    /\ CanEncode
    /\ IF encode1DRaises(TD)
       THEN /\ last' = Call("encode1Dspikes", FALSE, <<>>, 0, <<>>)
            /\ UNCHANGED <<file, wrote>>
       ELSE /\ file' = encode1DBytes(TD)
            /\ wrote' = "encode1Dspikes"
            /\ last' = Call("encode1Dspikes", TRUE, <<>>, 0, <<>>)
    /\ UNCHANGED <<callerP, alias, TD, RD, cols, spikeMat, frame>>

encode2Dspikes ==
    /\ CanEncode
    /\ IF encode2DRaises(TD)
       THEN /\ last' = Call("encode2Dspikes", FALSE, <<>>, 0, <<>>)
            /\ UNCHANGED <<file, wrote>>
       ELSE /\ file' = encode2DBytes(TD)
            /\ wrote' = "encode2Dspikes"
            /\ last' = Call("encode2Dspikes", TRUE, <<>>, 0, <<>>)
    /\ UNCHANGED <<callerP, alias, TD, RD, cols, spikeMat, frame>>

encode3Dspikes ==
    /\ CanEncode
    /\ IF encode3DRaises(TD)
       THEN /\ last' = Call("encode3Dspikes", FALSE, <<>>, 0, <<>>)
            /\ UNCHANGED <<file, wrote>>
       ELSE /\ file' = encode3DBytes(TD)
            /\ wrote' = "encode3Dspikes"
            /\ last' = Call("encode3Dspikes", TRUE, <<>>, 0, <<>>)
    /\ UNCHANGED <<callerP, alias, TD, RD, cols, spikeMat, frame>>

\* the client decodes a file that has just been written
CanRead ==
    \/ last.op = "externalFile"
    \/ last.op \in {"encode1Dspikes", "encode2Dspikes", "encode3Dspikes"} /\ last.ok

read1Dspikes ==
    /\ CanRead
    /\ LET c == read1DColumns(file)
       IN  IF read1DRaises(file)
           THEN /\ RD' = NoEvent
                /\ last' = Call("read1Dspikes", FALSE, <<>>, 0, <<>>)
           ELSE /\ RD' = event(c.x, c.y, c.p, c.t)
                /\ last' = Call("read1Dspikes", TRUE, c.p, 0, <<>>)
    /\ UNCHANGED <<file, wrote, callerP, alias, TD, cols, spikeMat, frame>>

read2Dspikes ==
    /\ CanRead
    /\ LET c == read2DColumns(file)
       IN  IF read2DRaises(file)
           THEN /\ RD' = NoEvent
                /\ last' = Call("read2Dspikes", FALSE, <<>>, 0, <<>>)
           ELSE /\ RD' = event(c.x, c.y, c.p, c.t)
                /\ last' = Call("read2Dspikes", TRUE, c.p, 0, <<>>)
    /\ UNCHANGED <<file, wrote, callerP, alias, TD, cols, spikeMat, frame>>

read3Dspikes ==
    /\ CanRead
    /\ LET c == read3DColumns(file)
       IN  IF read3DRaises(file)
           THEN /\ RD' = NoEvent
                /\ last' = Call("read3Dspikes", FALSE, <<>>, 0, <<>>)
           ELSE /\ RD' = event(c.x, c.y, c.p, c.t)
                /\ last' = Call("read3Dspikes", TRUE, c.p, 0, <<>>)
    /\ UNCHANGED <<file, wrote, callerP, alias, TD, cols, spikeMat, frame>>

read1DnumSpikes ==
    /\ CanRead
    /\ IF read1DnumRaises(file)
       THEN /\ cols' = NoCols
            /\ last' = Call("read1DnumSpikes", FALSE, <<>>, 0, <<>>)
       ELSE /\ cols' = read1DnumColumns(file)
            /\ last' = Call("read1DnumSpikes", TRUE, <<>>, 0, <<>>)
    /\ UNCHANGED <<file, wrote, callerP, alias, TD, RD, spikeMat, frame>>

\* the caller writes v at position i of its own p buffer; the container
\* sees the write when its p is that buffer
CallerWrite(i, v) ==
    /\ callerP' = [callerP EXCEPT ![i] = v]
    /\ TD' = IF alias THEN [TD EXCEPT !.p = [TD.p EXCEPT ![i] = v]] ELSE TD
    /\ last' = Call("callerWrite", TRUE, last.pArg, 0, <<>>)
    /\ UNCHANGED <<file, wrote, alias, RD, cols, spikeMat, frame>>

\* frame = TD.toSpikeArray(samplingTime, dim)
toSpikeArray(samplingTime, dim) ==
    /\ frame' = toSpikeArrayResult(TD, samplingTime, dim)
    /\ last' = Call("toSpikeArray", TRUE, <<>>, samplingTime, dim)
    /\ UNCHANGED <<file, wrote, callerP, alias, TD, RD, cols, spikeMat>>

\* frame = TD.toSpikeTensor(np.zeros(shape), samplingTime)
toSpikeTensor(shape, samplingTime) ==
    /\ IF toSpikeTensorRaises(TD, shape, samplingTime)
       THEN /\ frame' = NoTensor
            /\ last' = Call("toSpikeTensor", FALSE, <<>>, samplingTime, shape)
       ELSE /\ frame' = toSpikeTensorResult(TD, Zeros(shape), samplingTime)
            /\ last' = Call("toSpikeTensor", TRUE, <<>>, samplingTime, shape)
    /\ UNCHANGED <<file, wrote, callerP, alias, TD, RD, cols, spikeMat>>

\* TD = spikeArrayToEvent(mat, samplingTime)
spikeArrayToEvent(mat, samplingTime) ==
    /\ spikeMat' = mat
    /\ LET c == spikeArrayToEventColumns(mat, samplingTime)
       IN  IF spikeArrayToEventRaises(mat, samplingTime)
           THEN /\ TD' = NoEvent
                /\ last' = Call("spikeArrayToEvent", FALSE, <<>>, samplingTime, <<>>)
           ELSE /\ TD' = event(c.x, c.y, c.p, c.t)
                /\ last' = Call("spikeArrayToEvent", TRUE, c.p, samplingTime, <<>>)
    /\ UNCHANGED <<file, wrote, callerP, alias, RD, cols, frame>>

\* the client scatters the container it has just constructed
CanScatter == last.op = "event" /\ last.ok

\* the client scatters the events it has just gathered from spikeMat
CanScatterBack == last.op = "spikeArrayToEvent" /\ last.ok

-----------------------------------------------------------------------------
(* The codec scenario: event sets at the edges of the record fields *)

\* neuronID: below and above one byte, and the largest 16-bit value
NeuronIDs == {0, 255, 256, 65535}

\* ON / OFF
Polarities == {0, 1}

\* 0, 1000.5 us, and the largest 23-bit count of microseconds (in ticks)
Times1D == {0, 2001, 2 * 8388607}

\* (x, y) addresses: within one byte, and the largest 12-bit address
Addrs2D == {<<255, 1>>, <<1, 255>>, <<4095, 4095>>}

\* channel ids of the 3D format
Channels == {0, 1, 255}

\* 0x012345 us, the largest 23-bit and the largest 24-bit count of microseconds
Times2D == {2 * 74565, 2 * 8388607, 2 * 16777215}

\* the bytes another program writes
FileBytes == {1, 200}

NewEventCodec1D ==
    /\ AtStart
    /\ \E n \in 1..MaxEvents :
      \E xE \in [1..n -> NeuronIDs], pE \in [1..n -> Polarities], tE \in [1..n -> Times1D] :
        NewEvent("list", xE, None, pE, tE)

NewEventCodec2D ==
    /\ AtStart
    /\ \E n \in 1..MaxEvents :
      \E aE \in [1..n -> Addrs2D], pE \in [1..n -> Channels], tE \in [1..n -> Times2D] :
        NewEvent("list", [i \in 1..n |-> aE[i][1]], Some([i \in 1..n |-> aE[i][2]]), pE, tE)

WriteExternalFile ==
    /\ AtStart
    /\ \E n \in 0..MaxFileLen : \E bytes \in [1..n -> FileBytes] : ExternalFile(bytes)

NextCodec ==
    \/ NewEventCodec1D
    \/ NewEventCodec2D
    \/ WriteExternalFile
    \/ encode1Dspikes
    \/ encode2Dspikes
    \/ encode3Dspikes
    \/ read1Dspikes
    \/ read2Dspikes
    \/ read3Dspikes
    \/ read1DnumSpikes

SpecCodec == Init /\ [][NextCodec]_vars

-----------------------------------------------------------------------------
(* The tensor scenario: small event sets, bins of 1 ms and 2 ms, so that    *)
(* timestamps fall on a bin, between two bins and half-way between two bins *)

\* samplingTime: 1 ms and 2 ms (in ticks)
SamplingTimes == {2000, 4000}

BinX1D == {0, 1, 3}

\* channel ids that do not start at 0
BinP1D == {1, 2}

\* 0, 1 ms and 3 ms (in ticks)
BinT1D == {0, 2000, 6000}

BinX2D == {0, 2}

BinY2D == {0, 1}

BinP2D == {0, 1}

BinT2D == {2000, 6000}

\* dim given to toSpikeArray for one-dimensional data: (channels, width, bins)
ExplicitDims1D == {<<1, 2, 2>>, <<2, 4, 4>>, <<2, 0, 4>>}

\* dim given to toSpikeArray for two-dimensional data
ExplicitDims2D == {<<1, 1, 2, 2>>, <<2, 2, 3, 4>>}

\* shapes of the tensor given to toSpikeTensor: (channels, height, width, bins)
TensorShapes == {<<2, 1, 4, 4>>, <<1, 2, 2, 2>>, <<2, 0, 4, 4>>}

\* shapes of the tensor given to spikeArrayToEvent
GatherShapes == {<<2, 2, 2>>, <<2, 2, 1, 2>>, <<1, 1>>}

\* cell values of the tensor given to spikeArrayToEvent
GatherValues == {<<0 - 1, 1>>, Zero, <<1, 1>>}

\* how the caller holds the p column it passes to event(...)
Kinds == {"list", "ndarray"}

NewEventBin1D(kinds) ==
    /\ AtStart
    /\ \E kind \in kinds, n \in 0..MaxEvents :
         \E xE \in [1..n -> BinX1D], pE \in [1..n -> BinP1D], tE \in [1..n -> BinT1D] :
           NewEvent(kind, xE, None, pE, tE)

NewEventBin2D(kinds) ==
    /\ AtStart
    /\ \E kind \in kinds, n \in 0..MaxEvents :
         \E xE \in [1..n -> BinX2D], yE \in [1..n -> BinY2D],
            pE \in [1..n -> BinP2D], tE \in [1..n -> BinT2D] :
           NewEvent(kind, xE, Some(yE), pE, tE)

WriteCallerBuffer ==
    /\ last.op = "event" /\ last.ok
    /\ \E i \in 1..Len(callerP) : CallerWrite(i, 7)

ScatterAuto ==
    /\ CanScatter
    /\ \E s \in SamplingTimes : toSpikeArray(s, None)

ScatterDim ==
    /\ CanScatter
    /\ \E s \in SamplingTimes :
         \E dim \in (IF TD.dim = 1 THEN ExplicitDims1D ELSE ExplicitDims2D) :
           toSpikeArray(s, dim)

ScatterTensor ==
    /\ CanScatter
    /\ \E s \in SamplingTimes, shape \in TensorShapes : toSpikeTensor(shape, s)

ScatterBack ==
    /\ CanScatterBack
    /\ toSpikeArray(last.samplingTime, spikeMat.shape)

Gather ==
    /\ AtStart
    /\ \E s \in SamplingTimes, shape \in GatherShapes :
         \E cell \in [Cells(shape) -> GatherValues] :
           spikeArrayToEvent([shape |-> shape, cell |-> cell], s)

NextBin ==
    \/ NewEventBin1D({"list"})
    \/ NewEventBin2D({"list"})
    \/ ScatterAuto
    \/ ScatterDim
    \/ ScatterTensor
    \/ ScatterBack
    \/ Gather

SpecBin == Init /\ [][NextBin]_vars

(* The construction scenario: every way an event container comes to be *)

NextEvent ==
    \/ NewEventBin1D(Kinds)
    \/ NewEventBin2D(Kinds)
    \/ WriteCallerBuffer
    \/ WriteExternalFile
    \/ read1Dspikes
    \/ read2Dspikes
    \/ read3Dspikes
    \/ Gather

SpecEvent == Init /\ [][NextEvent]_vars

-----------------------------------------------------------------------------
(* Claims about the codecs *)

Encoders == {"encode1Dspikes", "encode2Dspikes", "encode3Dspikes"}

\* every timestamp is a whole number of microseconds below bound
WholeUsBelow(td, bound) ==
    \A i \in 1..Len(td.t) : td.t[i] % 2 = 0 /\ td.t[i] \div 2 < bound

InRange1D(td) ==
    /\ td.dim = 1
    /\ \A i \in 1..Len(td.x) : td.x[i] \in 0..65535
    /\ \A i \in 1..Len(td.p) : td.p[i] \in {0, 1}
    /\ WholeUsBelow(td, 2 ^ 23)

InRange2D(td) ==
    /\ td.dim = 2
    /\ \A i \in 1..Len(td.x) : td.x[i] \in 0..255 /\ td.y[1][i] \in 0..255
    /\ \A i \in 1..Len(td.p) : td.p[i] \in {0, 1}
    /\ WholeUsBelow(td, 2 ^ 23)

InRange3D(td) ==
    /\ td.dim = 2
    /\ \A i \in 1..Len(td.x) : td.x[i] \in 0..4095 /\ td.y[1][i] \in 0..4095
    /\ \A i \in 1..Len(td.p) : td.p[i] \in 0..255
    /\ WholeUsBelow(td, 2 ^ 24)

\* C1 (as claimed): read1Dspikes applied to the bytes encode1Dspikes wrote for
\* a ONE_D event set with x in 0..65535, p in {0,1} and whole-microsecond
\* timestamps below 2^23 returns the same x, p and t, event by event.
C1_RoundTrip1D ==
    (last.op = "read1Dspikes" /\ wrote = "encode1Dspikes" /\ InRange1D(TD))
        => /\ last.ok
           /\ RD.dim = 1
           /\ RD.x = TD.x
           /\ RD.p = TD.p
           /\ RD.t = TD.t

\* C2 (as claimed): read3Dspikes applied to the bytes encode3Dspikes wrote for
\* events with x, y in 0..4095, p in 0..255 and whole-microsecond timestamps
\* in 0..2^24-1 returns the same x, y, p and t (p as the event set given to
\* the encoder holds it).
C2_FieldPacking3D ==
    (last.op = "read3Dspikes" /\ wrote = "encode3Dspikes" /\ InRange3D(TD))
        => /\ last.ok
           /\ RD.x = TD.x
           /\ RD.y = TD.y
           /\ RD.p = TD.p
           /\ RD.t = TD.t

\* C3: read2Dspikes applied to the bytes encode2Dspikes wrote for a TWO_D
\* event set with x, y in 0..255, p in {0,1} and whole-microsecond timestamps
\* below 2^23 returns the same x, y, p and t, event by event and in the same
\* order; so no timestamp bit reaches the polarity and the polarity bit does
\* not reach the timestamp.
C3_RoundTrip2D ==
    (last.op = "read2Dspikes" /\ wrote = "encode2Dspikes" /\ InRange2D(TD))
        => /\ last.ok
           /\ RD.dim = 2
           /\ RD.x = TD.x
           /\ RD.y = TD.y
           /\ RD.p = TD.p
           /\ RD.t = TD.t

\* C3 witness: a two-event in-range set was written and read back, one event
\* ON with bit 22 of the timestamp clear, one OFF with all 23 bits set
C3_Witness ==
    /\ last.op = "read2Dspikes" /\ wrote = "encode2Dspikes" /\ InRange2D(TD)
    /\ last.ok
    /\ Len(TD.t) = 2
    /\ TD.x[1] # TD.x[2]
    /\ \E i \in 1..2 : TD.p[i] = 1 /\ TD.t[i] = 2 * 74565
    /\ \E i \in 1..2 : TD.p[i] = 0 /\ TD.t[i] = 2 * 8388607

\* the record size of the format a decoder reads
RecordSize(op) ==
    CASE op = "read1Dspikes"    -> 5
      [] op = "read2Dspikes"    -> 5
      [] op = "read3Dspikes"    -> 7
      [] op = "read1DnumSpikes" -> 10

Decoders == {"read1Dspikes", "read2Dspikes", "read3Dspikes", "read1DnumSpikes"}

\* C4 (as claimed): a decoder given a buffer whose length is not a multiple
\* of its record size ends in an error and returns nothing.
C4_MalformedRejected ==
    (last.op \in Decoders /\ Len(file) % RecordSize(last.op) # 0)
        => ~last.ok /\ RD = NoEvent /\ cols = NoCols

\* C5: an encoder called with an event set of the wrong dimensionality raises
\* and leaves the file as it was; with the matching dimensionality it does
\* not raise.
C5_DimensionMismatch ==
    [][(last.op = "event" /\ last'.op \in Encoders)
         => /\ last'.ok <=> (TD.dim = IF last'.op = "encode1Dspikes" THEN 1 ELSE 2)
            /\ ~last'.ok => (file' = file /\ wrote' = wrote)]_vars

\* C5 witness: encode1Dspikes has refused a TWO_D event set
C5_Witness ==
    /\ last.op = "encode1Dspikes" /\ ~last.ok
    /\ TD.dim = 2
    /\ file = OldFile

-----------------------------------------------------------------------------
(* Claims about the event container *)

Constructors ==
    {"event", "read1Dspikes", "read2Dspikes", "read3Dspikes", "spikeArrayToEvent"}

\* the container the last call constructed
Built == IF last.op \in {"event", "spikeArrayToEvent"} THEN TD ELSE RD

\* C6: every event set successfully constructed, by event(...), by a spike
\* decoder or by spikeArrayToEvent, has min(p) = 0, and every p is the value
\* handed to the constructor minus the least value handed to it.
C6_PolarityNormalized ==
    (last.op \in Constructors /\ last.ok)
        => /\ Len(Built.p) = Len(last.pArg)
           /\ Len(Built.p) > 0
           /\ Min(Range(Built.p)) = 0
           /\ \A i \in 1..Len(Built.p) :
                Built.p[i] = last.pArg[i] - Min(Range(last.pArg))

\* C6 witness: event(...) was given p = [2, 1], whose minimum is not 0
C6_Witness ==
    /\ last.op = "event" /\ last.ok
    /\ last.pArg = <<2, 1>>
    /\ TD.p = <<1, 0>>

\* C9 (as claimed): event(...) leaves the caller's p array as it was, and a
\* later write of the caller to its own array does not reach the container.
C9_CallerUnchanged ==
    /\ (last.op = "event" /\ last.ok) => callerP = last.pArg
    /\ last.op = "callerWrite" => TD.p = Normalize(last.pArg)

-----------------------------------------------------------------------------
(* Claims about the tensors *)

\* the 4-index (p, y, x, t) of a cell of a rank-3 or rank-4 tensor
Cell4(c) == IF Len(c) = 3 THEN <<c[1], 0, c[2], c[3]>> ELSE c

\* C7 (as claimed): toSpikeArray / toSpikeTensor with a caller-given shape
\* does not raise; a cell holds 1/samplingTime exactly when some event has
\* that cell as its rounded index, and 0 otherwise.
C7_ScatterExplicit ==
    (last.op \in {"toSpikeArray", "toSpikeTensor"} /\ last.shape # None)
        => /\ last.ok
           /\ frame.shape = last.shape
           /\ \A c \in Cells(frame.shape) :
                frame.cell[c] =
                    IF \E i \in 1..Len(TD.x) :
                         EventIndex(TD, i, last.samplingTime) = Cell4(c)
                    THEN InvSamplingTime(last.samplingTime)
                    ELSE Zero

\* the cells of spikeMat that are > 0
PositiveCells == {c \in Cells(spikeMat.shape) : spikeMat.cell[c][1] > 0}

\* event i of TD is the event of cell c: same spatial indices, timestamp
\* the bin index times samplingTime, channel counted from the least channel
\* that holds a positive cell
EventOfCell(i, c) ==
    LET m == Min({d[1] : d \in PositiveCells})
    IN  IF Len(c) = 3
        THEN /\ TD.p[i] = c[1] - m
             /\ TD.x[i] = c[2]
             /\ TD.t[i] = c[3] * last.samplingTime
        ELSE /\ TD.p[i] = c[1] - m
             /\ TD.y[1][i] = c[2]
             /\ TD.x[i] = c[3]
             /\ TD.t[i] = c[4] * last.samplingTime

\* C8: for a rank-3 or rank-4 tensor with a cell > 0, spikeArrayToEvent
\* returns one event per cell > 0 and no other event; the event has the
\* cell's spatial indices and the timestamp bin index * samplingTime; rank 3
\* gives a ONE_D set and rank 4 a TWO_D set.
C8_Gather ==
    (/\ last.op = "spikeArrayToEvent"
     /\ Len(spikeMat.shape) \in {3, 4}
     /\ PositiveCells # {})
        => /\ last.ok
           /\ TD.dim = Len(spikeMat.shape) - 2
           /\ Len(TD.x) = Cardinality(PositiveCells)
           /\ Len(TD.p) = Len(TD.x)
           /\ Len(TD.t) = Len(TD.x)
           /\ TD.dim = 2 => Len(TD.y[1]) = Len(TD.x)
           /\ \A c \in PositiveCells :
                Cardinality({i \in 1..Len(TD.x) : EventOfCell(i, c)}) = 1

\* C8 witness: a rank-4 tensor with two positive cells and a negative one
\* was gathered with bins of 2 ms
C8_Witness ==
    /\ last.op = "spikeArrayToEvent" /\ last.ok
    /\ Len(spikeMat.shape) = 4
    /\ last.samplingTime = 4000
    /\ Cardinality(PositiveCells) = 2
    /\ \E c \in Cells(spikeMat.shape) : spikeMat.cell[c][1] < 0
    /\ \E i \in 1..Len(TD.x) : TD.y[1][i] = 1 /\ TD.t[i] = 4000

\* C10 (as claimed): toSpikeArray without a shape drops no event: every
\* event's rounded indices are below the derived bounds and its cell is
\* non-zero in the result.
C10_AutoShapeKeepsAll ==
    (last.op = "toSpikeArray" /\ last.shape = None)
        => /\ last.ok
           /\ \A i \in 1..Len(TD.x) :
                LET e  == EventIndex(TD, i, last.samplingTime)
                    sh == frameShape(TD, frame.shape)
                IN  /\ \A k \in 1..4 : e[k] < sh[k]
                    /\ frame.cell[IF TD.dim = 1 THEN <<e[1], e[3], e[4]>> ELSE e] # Zero


\* the events gathered from spikeMat have been scattered into its shape
ScatteredBack == last.op = "toSpikeArray" /\ spikeMat.shape # <<>>

\* C11 (as claimed): scattering spikeArrayToEvent(T, s) with
\* toSpikeArray(s, shape of T) gives a tensor whose non-zero cells are
\* exactly the cells of T that are > 0, also when channel 0 of T holds no
\* positive cell.
C11_RoundTripSupport ==
    ScatteredBack
        => /\ last.ok
           /\ frame.shape = spikeMat.shape
           /\ \A c \in Cells(spikeMat.shape) :
                (frame.cell[c] # Zero) <=> (c \in PositiveCells)

\* the least channel of spikeMat that holds a positive cell
LeastChannel == Min({d[1] : d \in PositiveCells})

\* cell c moved up the channel axis by m
ChannelUp(c, m) == [c EXCEPT ![1] = c[1] + m]

\* C11 (amended): the non-zero cells of the tensor scattered back, all equal
\* to 1/samplingTime, are exactly the cells of T that are > 0 moved down the
\* channel axis by the least channel that holds a positive cell, at the same
\* spatial and time-bin indices; the support of T itself is restored exactly
\* when channel 0 holds a positive cell.
C11_RoundTripShifted ==
    ScatteredBack
        => /\ last.ok
           /\ frame.shape = spikeMat.shape
           /\ \A c \in Cells(spikeMat.shape) :
                frame.cell[c] =
                    IF ChannelUp(c, LeastChannel) \in PositiveCells
                    THEN InvSamplingTime(last.samplingTime)
                    ELSE Zero

\* C11 witness: a rank-4 tensor whose two positive cells both lie in
\* channel 1, in different rows and time bins, was gathered and scattered
\* back with bins of 2 ms; the cells come back in channel 0
C11_Witness ==
    /\ ScatteredBack
    /\ Len(spikeMat.shape) = 4
    /\ last.samplingTime = 4000
    /\ PositiveCells = {<<1, 0, 0, 0>>, <<1, 1, 0, 1>>}
    /\ frame.cell[<<0, 1, 0, 1>>] = <<1, 2>>
    /\ frame.cell[<<1, 1, 0, 1>>] = Zero

=============================================================================
